---- MODULE Spec2Model ----
(***************************************************************************)
(* scipy.stats.quantile (src/scipy/stats/_quantile.py) as a state machine. *)
(* One call is one behaviour: the inputs are chosen in Init, _quantile_iv  *)
(* standardises them (or raises), the estimator (_quantile_hf or           *)
(* _quantile_hd) computes the raw result, and the tail of quantile writes  *)
(* NaN at the masked probabilities.                                        *)
(*                                                                         *)
(* Floating-point numbers are modelled exactly, as fixed-point rationals   *)
(* with denominator S, plus the value NaN.  The computation axis is the    *)
(* last one: x is a family of slices (rows), p a vector of probabilities   *)
(* broadcast against every slice.                                          *)
(***************************************************************************)
EXTENDS Integers, Sequences, FiniteSets, TLC

\* ---------------------------------------------------------------- bounds
MaxLen == 3
PDen == 6

\* Every number of the model is an integer count of 1/S: S is a multiple of
\* every denominator the offsets m (1/2, p/3 + 1/3, p/4 + 3/8) can produce
\* for a probability k/PDen or the placeholder 1/2.
S == 24 * PDen

Slices == {1, 2}
Positions == {1, 2}

\* ---------------------------------------------------------------- floats
NaN == [kind |-> "nan", val |-> <<>>]
Num(v) == [kind |-> "num", val |-> <<v>>]
IsNaN(f) == f.kind = "nan"
IsNum(f) == f.kind = "num"
V(f) == f.val[1]

HFMethods ==
    {"inverted_cdf", "averaged_inverted_cdf", "closest_observation",
     "interpolated_inverted_cdf", "hazen", "weibull", "linear",
     "median_unbiased", "normal_unbiased"}
Methods == HFMethods \cup {"harrell-davis"}
NanPolicies == {"propagate", "omit", "raise"}

\* ------------------------------------------------------- _quantile_iv
\* _contains_nan(x, nan_policy): is there a NaN anywhere in x.  With
\* nan_policy = 'raise' it raises instead of returning True (Raises).
contains_nan(x) == \E s \in DOMAIN x : \E i \in DOMAIN x[s] : IsNaN(x[s][i])
Raises(x, nan_policy) == nan_policy = "raise" /\ contains_nan(x)

\* Variant of EmptyFill: the substitute slice is filled with 0, not NaN.
EmptyFill_zero(x) ==
    [s \in DOMAIN x |-> IF Len(x[s]) = 0 THEN <<Num(0)>> ELSE x[s]]

\* if x.shape[axis] == 0: x = xp.full(shape, nan) with shape[axis] = 1
EmptyFill(x) == [s \in DOMAIN x |-> IF Len(x[s]) = 0 THEN <<NaN>> ELSE x[s]]

\* xp.sort along the axis: ascending, NaN last.
SortLe(a, b) == IsNaN(b) \/ (IsNum(a) /\ V(a) <= V(b))
RECURSIVE Insert(_, _)
Insert(e, q) ==
    IF q = <<>> THEN <<e>>
    ELSE IF SortLe(e, Head(q)) THEN <<e>> \o q
    ELSE <<Head(q)>> \o Insert(e, Tail(q))
RECURSIVE sort(_)
sort(q) == IF q = <<>> THEN <<>> ELSE Insert(Head(q), sort(Tail(q)))

\* _length_nonmasked(y, -1): the length of the axis.
length_nonmasked(row) == Len(row)

RECURSIVE CountTrue(_)
CountTrue(q) == IF q = <<>> THEN 0
                ELSE (IF Head(q) THEN 1 ELSE 0) + CountTrue(Tail(q))

\* Variant of OmitCount: the NaN entries are counted too.
OmitCount_all(nans) == [s \in DOMAIN nans |-> Len(nans[s])]

\* n under 'omit': the number of non-NaN entries of each slice (lines 83-85).
OmitCount(nans) == [s \in DOMAIN nans |->
                      CountTrue([i \in DOMAIN nans[s] |-> ~nans[s][i]])]

\* Variant of NanOut: 'propagate' flags a slice only when all of it is NaN.
NanOut_all(nans, nan_policy) ==
    [s \in DOMAIN nans |-> OmitCount(nans)[s] = 0]

\* nan_out (lines 80-87): the slices whose result must be NaN.
NanOut(nans, nan_policy) ==
    IF nan_policy = "propagate"
    THEN [s \in DOMAIN nans |-> \E i \in DOMAIN nans[s] : nans[s][i]]
    ELSE [s \in DOMAIN nans |-> OmitCount(nans)[s] = 0]

\* n (lines 73-74, 83-88).
EffectiveN(y, nans, nan_policy, contains_nans) ==
    IF contains_nans /\ nan_policy # "propagate"
    THEN [s \in DOMAIN y |-> IF NanOut(nans, nan_policy)[s]
                             THEN Len(y[s])
                             ELSE OmitCount(nans)[s]]
    ELSE [s \in DOMAIN y |-> length_nonmasked(y[s])]

\* lines 90-95: overwrite the flagged slices with NaN; otherwise, for
\* harrell-davis only, overwrite the NaN entries with 0.
NanFill(y, nans, nan_out, method) ==
    IF \E s \in DOMAIN y : nan_out[s]
    THEN [s \in DOMAIN y |->
            IF nan_out[s] THEN [i \in DOMAIN y[s] |-> NaN] ELSE y[s]]
    ELSE IF (\E s \in DOMAIN y : \E i \in DOMAIN y[s] : nans[s][i])
            /\ method = "harrell-davis"
    THEN [s \in DOMAIN y |->
            [i \in DOMAIN y[s] |-> IF nans[s][i] THEN Num(0) ELSE y[s][i]]]
    ELSE y

\* p_mask = (p > 1) | (p < 0) | isnan(p)
PMask(q) == IsNaN(q) \/ V(q) > S \/ V(q) < 0

\* p[p_mask] = 0.5
Half == Num(S \div 2)
PSanitize(p, p_mask) == [i \in DOMAIN p |-> IF p_mask[i] THEN Half ELSE p[i]]

quantile_iv(x, p, method, nan_policy) ==
    LET contains_nans == contains_nan(x)
        x1 == EmptyFill(x)
        y0 == [s \in DOMAIN x1 |-> sort(x1[s])]
        nans == [s \in DOMAIN y0 |-> [i \in DOMAIN y0[s] |-> IsNaN(y0[s][i])]]
        nan_out == IF contains_nans THEN NanOut(nans, nan_policy)
                   ELSE [s \in DOMAIN y0 |-> FALSE]
        p_mask == [i \in DOMAIN p |-> PMask(p[i])]
    IN  [y |-> IF contains_nans THEN NanFill(y0, nans, nan_out, method) ELSE y0,
         n |-> EffectiveN(y0, nans, nan_policy, contains_nans),
         p |-> PSanitize(p, p_mask),
         p_mask |-> p_mask]

\* ------------------------------------------------------- _quantile_hf
\* ms[method], times S (pS is p times S).
MOffset(method, pS) ==
    CASE method = "inverted_cdf" -> 0
      [] method = "averaged_inverted_cdf" -> 0
      [] method = "closest_observation" -> -(S \div 2)
      [] method = "interpolated_inverted_cdf" -> 0
      [] method = "hazen" -> S \div 2
      [] method = "weibull" -> pS
      [] method = "linear" -> S - pS
      [] method = "median_unbiased" -> (pS \div 3) + (S \div 3)
      [] method = "normal_unbiased" -> (pS \div 4) + ((3 * S) \div 8)

\* jg = p*n + m - 1, times S.
Jg(method, pS, n) == pS * n + MOffset(method, pS) - S

\* Variant of GCoef: closest_observation breaks ties on even j.
GCoef_parity(method, jgS) ==
    LET j == jgS \div S
        g == jgS % S
        gm == CASE method = "inverted_cdf" -> IF g > 0 THEN S ELSE 0
                [] method = "averaged_inverted_cdf" ->
                     (S + (IF g > 0 THEN S ELSE 0)) \div 2
                [] method = "closest_observation" ->
                     S - (IF g = 0 /\ j % 2 = 0 THEN S ELSE 0)
                [] OTHER -> g
    IN  IF method \in {"inverted_cdf", "averaged_inverted_cdf",
                       "closest_observation"} /\ jgS < 0
        THEN 0 ELSE gm

\* Variant of GCoef: inverted_cdf tests g >= 0 instead of g > 0.
GCoef_ge(method, jgS) ==
    LET j == jgS \div S
        g == jgS % S
        gm == CASE method = "inverted_cdf" -> IF g >= 0 THEN S ELSE 0
                [] method = "averaged_inverted_cdf" ->
                     (S + (IF g > 0 THEN S ELSE 0)) \div 2
                [] method = "closest_observation" ->
                     S - (IF g = 0 /\ j % 2 = 1 THEN S ELSE 0)
                [] OTHER -> g
    IN  IF method \in {"inverted_cdf", "averaged_inverted_cdf",
                       "closest_observation"} /\ jgS < 0
        THEN 0 ELSE gm

\* g (lines 307-316), times S; j = jg // 1 and g = jg % 1 are floor division
\* and the non-negative remainder, as \div and % are.
GCoef(method, jgS) ==
    LET j == jgS \div S
        g == jgS % S
        gm == CASE method = "inverted_cdf" -> IF g > 0 THEN S ELSE 0
                [] method = "averaged_inverted_cdf" ->
                     (S + (IF g > 0 THEN S ELSE 0)) \div 2
                [] method = "closest_observation" ->
                     S - (IF g = 0 /\ j % 2 = 1 THEN S ELSE 0)
                [] OTHER -> g
    IN  IF method \in {"inverted_cdf", "averaged_inverted_cdf",
                       "closest_observation"} /\ jgS < 0
        THEN 0 ELSE gm

Clip(v, lo, hi) == IF v < lo THEN lo ELSE IF v > hi THEN hi ELSE v

\* lines 317-318: j is clipped first, and jp1 is the clip of the clipped j + 1.
JIndex(jgS, n) == Clip(jgS \div S, 0, n - 1)
Jp1Index(jgS, n) == Clip(JIndex(jgS, n) + 1, 0, n - 1)

\* (1 - g) * a + g * b in IEEE arithmetic: NaN if either operand is NaN,
\* whatever its coefficient.
Blend(g, a, b) ==
    IF IsNaN(a) \/ IsNaN(b) THEN NaN
    ELSE Num(((S - g) * V(a) + g * V(b)) \div S)

\* One element of _quantile_hf: sorted slice row, probability q, count n.
HfElem(row, q, n, method) ==
    LET jgS == Jg(method, V(q), n)
    IN  Blend(GCoef(method, jgS),
              row[JIndex(jgS, n) + 1], row[Jp1Index(jgS, n) + 1])

quantile_hf(y, p, n, method) ==
    [s \in DOMAIN y |-> [i \in DOMAIN p |-> HfElem(y[s], p[i], n[s], method)]]

\* ------------------------------------------------------- _quantile_hd
\* The weights w = diff(betainc(a, b, i/n)) with NaN weights zeroed are finite
\* and depend on p and n only; the weights of the entries past n are zero.
\* vecdot(w, y) is NaN as soon as one entry of y is NaN (0 * NaN = NaN);
\* otherwise it is the weighted sum of the first n entries, kept as the
\* term (p, n, y[1..n]).
RECURSIVE Vals(_)
Vals(q) == IF q = <<>> THEN <<>> ELSE <<V(Head(q))>> \o Vals(Tail(q))

HdElem(row, q, n) ==
    IF \E i \in DOMAIN row : IsNaN(row[i]) THEN NaN
    ELSE [kind |-> "hd", val |-> <<V(q), n>> \o Vals(SubSeq(row, 1, n))]

quantile_hd(y, p, n) ==
    [s \in DOMAIN y |-> [i \in DOMAIN p |-> HdElem(y[s], p[i], n[s])]]

\* ------------------------------------------------------------ quantile
\* Variant of MaskResult: the masked positions keep the placeholder's value.
MaskResult_skip(res, p_mask) == res

\* res[p_mask] = xp.nan
MaskResult(res, p_mask) ==
    [s \in DOMAIN res |->
        [i \in DOMAIN res[s] |-> IF p_mask[i] THEN NaN ELSE res[s][i]]]

Estimate(iv, method) ==
    IF method \in HFMethods THEN quantile_hf(iv.y, iv.p, iv.n, method)
    ELSE quantile_hd(iv.y, iv.p, iv.n)

\* The value quantile returns when it does not raise.
quantile(x, p, method, nan_policy) ==
    LET iv == quantile_iv(x, p, method, nan_policy)
    IN  MaskResult(Estimate(iv, method), iv.p_mask)

\* ------------------------------------------------------------- inputs
\* The entries of x: the numbers 0 and 1, and NaN.
XVals == {Num(0), Num(S), NaN}
Rows(L) == [1 .. L -> XVals]
ConstRows(L) == {[i \in 1 .. L |-> v] : v \in {Num(0), NaN}}
PGrid == {Num(k * (S \div PDen)) : k \in -1 .. PDen + 1} \cup {NaN}
\* The probabilities of a call: two neighbours of the grid (the lower one may
\* be below 0, the upper one above 1), or a NaN beside 0, 1 or another NaN.
Succ(q) == Num(V(q) + (S \div PDen))
PInputs == {<<q, Succ(q)>> : q \in {r \in PGrid : IsNum(r) /\ V(r) <= S}}
           \cup {<<NaN, q>> : q \in {Num(0), Num(S), NaN}}

\* -------------------------------------------------------------- state
VARIABLES x, p, method, nan_policy, pc, y, n, ps, p_mask, res, err

vars == <<x, p, method, nan_policy, pc, y, n, ps, p_mask, res, err>>
inputs == <<x, p, method, nan_policy>>

Init ==
    /\ \E L \in 0 .. MaxLen :
         \E r1 \in Rows(L) : \E r2 \in ConstRows(L) :
            x = [s \in Slices |-> IF s = 1 THEN r1 ELSE r2]
    /\ p \in PInputs
    /\ method \in Methods
    /\ nan_policy \in NanPolicies
    /\ pc = "iv"
    /\ y = <<>>
    /\ n = <<>>
    /\ ps = <<>>
    /\ p_mask = <<>>
    /\ res = <<>>
    /\ err = "none"

\* _contains_nan raises ValueError (line 44, nan_policy = 'raise').
QuantileIvRaise ==
    /\ pc = "iv"
    /\ Raises(x, nan_policy)
    /\ pc' = "error"
    /\ err' = "ValueError"
    /\ UNCHANGED <<inputs, y, n, ps, p_mask, res>>

\* _quantile_iv returns (line 272).
QuantileIv ==
    /\ pc = "iv"
    /\ ~Raises(x, nan_policy)
    /\ LET iv == quantile_iv(x, p, method, nan_policy)
       IN  /\ y' = iv.y
           /\ n' = iv.n
           /\ ps' = iv.p
           /\ p_mask' = iv.p_mask
    /\ pc' = "estimate"
    /\ UNCHANGED <<inputs, res, err>>

\* res = _quantile_hf(y, p, n, method, xp) (line 278).
QuantileHf ==
    /\ pc = "estimate"
    /\ method \in HFMethods
    /\ res' = quantile_hf(y, ps, n, method)
    /\ pc' = "assemble"
    /\ UNCHANGED <<inputs, y, n, ps, p_mask, err>>

\* res = _quantile_hd(y, p, n, xp) (line 280).
QuantileHd ==
    /\ pc = "estimate"
    /\ method = "harrell-davis"
    /\ res' = quantile_hd(y, ps, n)
    /\ pc' = "assemble"
    /\ UNCHANGED <<inputs, y, n, ps, p_mask, err>>

\* res[p_mask] = xp.nan and the return (lines 284-297).
Assemble ==
    /\ pc = "assemble"
    /\ res' = MaskResult(res, p_mask)
    /\ pc' = "done"
    /\ UNCHANGED <<inputs, y, n, ps, p_mask, err>>

Next == QuantileIvRaise \/ QuantileIv \/ QuantileHf \/ QuantileHd \/ Assemble

Spec == Init /\ [][Next]_vars

TypeOK ==
    /\ pc \in {"iv", "estimate", "assemble", "done", "error"}
    /\ err \in {"none", "ValueError"}
    /\ (pc = "error") = (err = "ValueError")

\* ------------------------------------------------------------- claims
Done == pc = "done"
Valid(q) == ~PMask(q)
HasNaN(row) == \E i \in DOMAIN row : IsNaN(row[i])
NanFree(row) == ~HasNaN(row)
NumNaN(row) == Cardinality({i \in DOMAIN row : IsNaN(row[i])})
RemoveNaN(row) == SelectSeq(row, IsNum)
RowMin(row) == CHOOSE v \in {row[i] : i \in DOMAIN row} :
                  \A i \in DOMAIN row : V(v) <= V(row[i])
RowMax(row) == CHOOSE v \in {row[i] : i \in DOMAIN row} :
                  \A i \in DOMAIN row : V(v) >= V(row[i])
FLe(a, b) == IsNum(a) /\ IsNum(b) /\ V(a) <= V(b)
ValidGrid == {q \in PGrid : Valid(q)}

\* C1: for each Hyndman-Fan method, every NaN-free slice of length >= 1 and
\* every pair of probabilities 0 <= p1 <= p2 <= 1, quantile(x, p1) <=
\* quantile(x, p2).
C1_Monotone ==
    (Done /\ method \in HFMethods) =>
        \A s \in Slices :
            (Len(x[s]) >= 1 /\ NanFree(x[s])) =>
                \A i, k \in Positions :
                    (Valid(p[i]) /\ Valid(p[k]) /\ V(p[i]) <= V(p[k]))
                        => FLe(res[s][i], res[s][k])

\* C2: for each Hyndman-Fan method and every NaN-free slice of length >= 1,
\* quantile(x, 0) is the minimum of the slice and quantile(x, 1) its maximum.
C2_Boundary ==
    (Done /\ method \in HFMethods) =>
        \A s \in Slices :
            (Len(x[s]) >= 1 /\ NanFree(x[s])) =>
                \A i \in Positions :
                    /\ p[i] = Num(0) => res[s][i] = RowMin(x[s])
                    /\ p[i] = Num(S) => res[s][i] = RowMax(x[s])

\* The array x with every NaN entry replaced by 0.
Cleaned(a) == [s \in DOMAIN a |->
                 [i \in DOMAIN a[s] |-> IF IsNaN(a[s][i]) THEN Num(0) ELSE a[s][i]]]

\* C3: with nan_policy = 'propagate', every slice that contains a NaN yields
\* NaN at every probability, and every slice without NaN yields the value it
\* would yield if no slice of x contained a NaN.
C3_Propagate ==
    (Done /\ nan_policy = "propagate") =>
        LET clean == quantile(Cleaned(x), p, method, nan_policy)
        IN  \A s \in Slices :
                /\ HasNaN(x[s]) => \A i \in Positions : IsNaN(res[s][i])
                /\ (Len(x[s]) >= 1 /\ NanFree(x[s])) => res[s] = clean[s]

C3_Witness ==
    /\ Done /\ nan_policy = "propagate"
    /\ \E s, t \in Slices :
         /\ HasNaN(x[s])
         /\ Len(RemoveNaN(x[s])) >= 1
         /\ Len(x[t]) >= 1 /\ NanFree(x[t])
         /\ \E i \in Positions : IsNaN(res[s][i]) /\ ~IsNaN(res[t][i])

\* C4: with nan_policy = 'omit' and a Hyndman-Fan method, a slice with k NaNs
\* and at least one other value has the count n = length - k and, at every
\* valid p, the result of quantile on the slice with its NaNs removed; a slice
\* with no value other than NaN yields NaN.
C4_Omit ==
    (Done /\ nan_policy = "omit" /\ method \in HFMethods) =>
        \A s \in Slices :
            /\ NumNaN(x[s]) < Len(x[s]) =>
                 LET alone == quantile(<<RemoveNaN(x[s])>>, p, method, nan_policy)
                 IN  /\ n[s] = Len(x[s]) - NumNaN(x[s])
                     /\ \A i \in Positions :
                          Valid(p[i]) => res[s][i] = alone[1][i]
            /\ NumNaN(x[s]) = Len(x[s]) => \A i \in Positions : IsNaN(res[s][i])

C4_Witness ==
    /\ Done /\ nan_policy = "omit" /\ method \in HFMethods
    /\ \E s \in Slices :
         /\ NumNaN(x[s]) >= 1 /\ Len(x[s]) - NumNaN(x[s]) >= 2
         /\ n[s] = Len(x[s]) - NumNaN(x[s])
         /\ \E i \in Positions : Valid(p[i]) /\ IsNum(res[s][i])

C6_NaNInPRaises ==
    (\E i \in Positions : IsNaN(p[i])) => pc \in {"iv", "error"}

\* C7: when x has length 0 along the axis, quantile does not fail under any
\* nan_policy and any method, and the result is NaN at every probability, as
\* for a slice of length 1 holding a NaN.
C7_EmptySlice ==
    (\A s \in Slices : Len(x[s]) = 0) =>
        /\ pc # "error"
        /\ Done =>
             /\ \A s \in Slices : \A i \in Positions : IsNaN(res[s][i])
             /\ nan_policy # "raise" =>
                  res = quantile([s \in Slices |-> <<NaN>>], p, method, nan_policy)

C7_Witness ==
    /\ Done /\ nan_policy = "raise"
    /\ \A s \in Slices : Len(x[s]) = 0
    /\ \E i \in Positions : Valid(p[i])

\* jg = p*n - 3/2 of closest_observation, times S.
TieJg(q, nn) == V(q) * nn - (3 * S) \div 2
IsTie(q, nn) == Valid(q) /\ TieJg(q, nn) >= 0 /\ TieJg(q, nn) % S = 0

\* C8 as stated: at an exact tie (jg = p*n - 3/2 a non-negative integer j),
\* closest_observation returns the lower order statistic y[j] when j is even
\* and the upper one y[j+1] when j is odd.
C8_TieEvenLower ==
    (Done /\ method = "closest_observation") =>
        \A s \in Slices : \A i \in Positions :
            IsTie(p[i], n[s]) =>
                LET j == TieJg(p[i], n[s]) \div S
                IN  res[s][i] = IF j % 2 = 0
                                THEN y[s][Clip(j, 0, n[s] - 1) + 1]
                                ELSE y[s][Clip(j + 1, 0, n[s] - 1) + 1]

\* C8 amended: at an exact tie, closest_observation returns the lower order
\* statistic y[j] when j is odd and the upper one y[j+1] when j is even.
C8_TieOddLower ==
    (Done /\ method = "closest_observation") =>
        \A s \in Slices : \A i \in Positions :
            IsTie(p[i], n[s]) =>
                LET j == TieJg(p[i], n[s]) \div S
                IN  res[s][i] = IF j % 2 = 1
                                THEN y[s][Clip(j, 0, n[s] - 1) + 1]
                                ELSE y[s][Clip(j + 1, 0, n[s] - 1) + 1]

C8_Witness ==
    /\ Done /\ method = "closest_observation"
    /\ \E s \in Slices : \E i \in Positions :
         /\ IsTie(p[i], n[s])
         /\ LET j == TieJg(p[i], n[s]) \div S
            IN  /\ j % 2 = 1
                /\ IsNum(y[s][j + 1]) /\ IsNum(y[s][j + 2])
                /\ y[s][j + 1] # y[s][j + 2]
                /\ res[s][i] = y[s][j + 1]

\* C9: with method = 'harrell-davis' and nan_policy = 'omit', after the
\* missing-value step every slice with at least one non-NaN value has no NaN
\* left in y, so its weighted sum is not NaN at any valid p.
C9_HdResidualZeroed ==
    (pc \in {"estimate", "assemble", "done"}
        /\ method = "harrell-davis" /\ nan_policy = "omit") =>
        \A s \in Slices :
            NumNaN(x[s]) < Len(x[s]) =>
                /\ NanFree(y[s])
                /\ Done => \A i \in Positions : Valid(p[i]) => ~IsNaN(res[s][i])

\* ceil(p*n), at least 1.
Rank(q, nn) == LET c == -((-(V(q) * nn)) \div S) IN IF c < 1 THEN 1 ELSE c
\* The number of entries of row that are <= v.
CountLe(row, v) == Cardinality({k \in DOMAIN row : V(row[k]) <= V(v)})
\* The smallest sample value v with CountLe(row, v) / n >= p.
InverseCdf(row, q) ==
    CHOOSE v \in {row[k] : k \in DOMAIN row} :
        /\ CountLe(row, v) * S >= V(q) * Len(row)
        /\ \A w \in {row[k] : k \in DOMAIN row} :
             CountLe(row, w) * S >= V(q) * Len(row) => V(v) <= V(w)

\* C10: for inverted_cdf, every NaN-free slice of length n >= 1 and every p in
\* [0, 1], the result is the order statistic of rank max(ceil(p*n), 1), which
\* is the smallest sample value v with (number of elements <= v) / n >= p.
C10_InvertedCdf ==
    (Done /\ method = "inverted_cdf") =>
        \A s \in Slices :
            (Len(x[s]) >= 1 /\ NanFree(x[s])) =>
                \A i \in Positions :
                    Valid(p[i]) =>
                        /\ res[s][i] = y[s][Rank(p[i], Len(x[s]))]
                        /\ res[s][i] = InverseCdf(x[s], p[i])

C10_Witness ==
    /\ Done /\ method = "inverted_cdf"
    /\ \E s \in Slices : \E i \in Positions :
         /\ Len(x[s]) >= 2 /\ NanFree(x[s]) /\ Valid(p[i])
         /\ RowMin(x[s]) # RowMax(x[s])
         /\ (V(p[i]) * Len(x[s])) % S # 0
         /\ Rank(p[i], Len(x[s])) >= 2
         /\ res[s][i] = RowMax(x[s])
====
